---- MODULE Spec2Model ----
(***************************************************************************)
(* A model of ox_plot.finance: the bar-size parameter table of intraday.py *)
(* (BSizeParams), the data preparer of barplot.py (prep_plot_data), and    *)
(* the two render calls (barplot.simple_pandas_plot and intraday.plot).    *)
(*                                                                         *)
(* Strings the code takes apart (bar-size tokens, column names) are        *)
(* sequences of one-character strings, so that str.lower() and             *)
(* item[0].upper() + item[1:] are computed character by character.         *)
(* Floats are exact rationals [num, den] in lowest terms.                  *)
(* Timestamps are minutes counted from the start of proleptic day 0, so a  *)
(* timestamp t lies on the day of ordinal t \div MinutesPerDay.            *)
(***************************************************************************)
EXTENDS Integers, Sequences, FiniteSets, TLC

VARIABLES
    heap,      \* the data frames alive: reference -> frame (NoFrame when unbound)
    given,     \* the frame the caller built, as it was when it was built
    fs,        \* the paths that exist in the file system
    finance,   \* which import of intraday.py lines 14-18 succeeded at load time
    pc,        \* "idle": the caller may call; "returned": a call has come back
    last,      \* what the last call was given, what it did and what came back
    bundle,    \* the BSizeParams object the caller holds (NoParams before any)
    bres       \* the last BSizeParams operation: its token, error, prior bundle

vars == <<heap, given, fs, finance, pc, last, bundle, bres>>

----------------------------------------------------------------------------
(* Characters and strings *)

LowerChar(c) ==
    CASE c = "M" -> "m"
      [] c = "I" -> "i"
      [] c = "N" -> "n"
      [] c = "H" -> "h"
      [] OTHER -> c

UpperChar(c) ==
    CASE c = "o" -> "O"
      [] c = "h" -> "H"
      [] c = "l" -> "L"
      [] c = "c" -> "C"
      [] c = "v" -> "V"
      [] c = "d" -> "D"
      [] c = "e" -> "E"
      [] c = "i" -> "I"
      [] c = "m" -> "M"
      [] c = "n" -> "N"
      [] OTHER -> c

\* str.lower()
Lower(s) == [i \in 1..Len(s) |-> LowerChar(s[i])]

Range(s) == {s[i] : i \in 1..Len(s)}

----------------------------------------------------------------------------
(* Exact rationals standing for the code's floats *)

RECURSIVE Gcd(_, _)
Gcd(a, b) == IF b = 0 THEN a ELSE Gcd(b, a % b)

Abs(x) == IF x < 0 THEN -x ELSE x

Rat(n, d) ==
    LET g == Gcd(Abs(n), Abs(d))
        s == IF d < 0 THEN -1 ELSE 1
    IN  [num |-> (s * n) \div g, den |-> (s * d) \div g]

RMul(a, b) == Rat(a.num * b.num, a.den * b.den)
RDiv(a, b) == Rat(a.num * b.den, a.den * b.num)
RInt(n) == Rat(n, 1)

----------------------------------------------------------------------------
(* intraday.BSizeParams *)

\* MinuteLocator(byminute=None, interval=1): None stands for every minute
EveryMinute == [i \in 1..60 |-> i - 1]

MinuteLocator(byminute, interval) == [byminute |-> byminute, interval |-> interval]

\* The value of an attribute that is None
NoLocator == [byminute |-> <<>>, interval |-> 0]

DateFormatter(fmt) == [fmt |-> fmt]

\* A buggy get_width that leaves out the division by 4.0.
get_width_no_quarter(minutes) ==
    RDiv(RMul(RMul(RInt(minutes), Rat(9, 10)), RInt(60)),
         RMul(RInt(3600), Rat(13, 2)))

\* minutes*.9*60./4.0/(3600.*6.5), evaluated left to right
get_width(minutes) ==
    RDiv(RDiv(RMul(RMul(RInt(minutes), Rat(9, 10)), RInt(60)), RInt(4)),
         RMul(RInt(3600), Rat(13, 2)))

set_from_bsize_15min(self) ==
    [self EXCEPT !.width = get_width(15),
                 !.minor_loc = MinuteLocator(EveryMinute, 1),
                 !.major_loc = MinuteLocator(<<0, 30>>, 1),
                 !.formatter = DateFormatter("%H:%M")]

set_from_bsize_5min(self) ==
    [self EXCEPT !.width = get_width(5),
                 !.minor_loc = MinuteLocator(EveryMinute, 1),
                 !.major_loc = MinuteLocator(<<0, 15, 30, 45>>, 1),
                 !.formatter = DateFormatter("%H:%M")]

set_from_bsize_1min(self) ==
    [self EXCEPT !.width = get_width(1),
                 !.minor_loc = MinuteLocator(EveryMinute, 1),
                 !.major_loc = MinuteLocator(<<0, 15, 30, 45>>, 1),
                 !.formatter = DateFormatter("%H:%M")]

\* The attributes of a BSizeParams object whose name starts with
\* 'set_from_bsize_', by the rest of their name.
SetterSuffixes ==
    { <<"1", "5", "m", "i", "n">>, <<"5", "m", "i", "n">>, <<"1", "m", "i", "n">> }

\* getattr(self, 'set_from_bsize_' + suffix): found or AttributeError
HasSetter(suffix) == suffix \in SetterSuffixes

CallSetter(self, suffix) ==
    CASE suffix = <<"1", "5", "m", "i", "n">> -> set_from_bsize_15min(self)
      [] suffix = <<"5", "m", "i", "n">> -> set_from_bsize_5min(self)
      [] suffix = <<"1", "m", "i", "n">> -> set_from_bsize_1min(self)

\* A buggy set_from_bsize that falls back to the one-minute setter when the
\* lookup finds nothing, instead of raising.
set_from_bsize_fallback(self, bsize) ==
    IF HasSetter(Lower(bsize))
    THEN [err |-> "None", self |-> CallSetter(self, Lower(bsize))]
    ELSE [err |-> "None", self |-> set_from_bsize_1min(self)]

\* set_from_bsize: the object after the call and the error raised, if any
set_from_bsize(self, bsize) ==
    IF HasSetter(Lower(bsize))
    THEN [err |-> "None", self |-> CallSetter(self, Lower(bsize))]
    ELSE [err |-> "AttributeError", self |-> self]

\* No BSizeParams object
NoParams ==
    [bsize |-> <<>>, minor_loc |-> NoLocator, major_loc |-> NoLocator,
     width |-> RInt(0), formatter |-> DateFormatter("")]

\* BSizeParams(bsize): the object constructed, or the error and no object
BSizeParams(bsize) ==
    LET self == [bsize |-> bsize,
                 minor_loc |-> NoLocator,
                 major_loc |-> NoLocator,
                 width |-> RInt(1),
                 formatter |-> DateFormatter("%H:%M")]
        r == set_from_bsize(self, bsize)
    IN  IF r.err = "None"
        THEN [err |-> "None", obj |-> r.self]
        ELSE [err |-> r.err, obj |-> NoParams]

----------------------------------------------------------------------------
(* Bar-size tokens a caller may pass *)

DigitParts == { <<>>, <<"1">>, <<"5">>, <<"1", "5">>, <<"2">>, <<"3", "0">> }

MinSpellings ==
    { <<a, b, c>> : a \in {"m", "M"}, b \in {"i", "I"}, c \in {"n", "N"} }

UnitParts == MinSpellings \cup { <<>>, <<"h">> }

Tokens == { d \o u : d \in DigitParts, u \in UnitParts }

----------------------------------------------------------------------------
(* Data frames *)

MinutesPerDay == 1440

\* Column and index names
NoName == <<>>
OPEN == <<"o", "p", "e", "n">>
HIGH == <<"h", "i", "g", "h">>
LOW == <<"l", "o", "w">>
CLOSE == <<"c", "l", "o", "s", "e">>
VOLUME == <<"v", "o", "l", "u", "m", "e">>
DATE == <<"d", "a", "t", "e">>
EVENT_DATE == <<"e", "v", "e", "n", "t", "_", "d", "a", "t", "e">>
INDEX == <<"i", "n", "d", "e", "x">>
LEVEL_0 == <<"l", "e", "v", "e", "l", "_", "0">>

\* Cells: a timestamp, an integer, a float n/d, or NaN
TsCell(t) == [k |-> "ts", n |-> t, d |-> 1]
IntCell(i) == [k |-> "int", n |-> i, d |-> 1]
FloatCell(r) == [k |-> "float", n |-> r.num, d |-> r.den]
NaN == [k |-> "nan", n |-> 0, d |-> 0]

\* An optional start or end date
NoneBound == [set |-> FALSE, t |-> 0]
At(t) == [set |-> TRUE, t |-> t]

\* iname: the index's name; ikind: "datetime" or "range"; index: one cell per
\* row; cols: the column names in order; rows: one function cols -> cell per row
NoFrame == [iname |-> NoName, ikind |-> "none", index |-> <<>>, cols |-> <<>>,
            rows |-> <<>>]

NRows(f) == Len(f.index)

HasColumn(f, name) == name \in Range(f.cols)

RangeIndex(n) == [i \in 1..n |-> IntCell(i - 1)]

\* The rows of f at the positions keep (an increasing sequence of positions)
TakeRows(f, keep) ==
    [f EXCEPT !.index = [i \in 1..Len(keep) |-> f.index[keep[i]]],
              !.rows = [i \in 1..Len(keep) |-> f.rows[keep[i]]]]

RECURSIVE SortedSeq(_)
SortedSeq(S) ==
    IF S = {} THEN <<>>
    ELSE LET m == CHOOSE x \in S : \A y \in S : x <= y
         IN  <<m>> \o SortedSeq(S \ {m})

\* DataFrame.truncate(before, after) of pandas: a new frame with the rows whose
\* index label lies in [before, after]; an inverted pair is rejected before any
\* slicing, and a date bound cannot slice a range index.
Truncate(f, before, after) ==
    IF before.set /\ after.set /\ before.t > after.t
    THEN [err |-> "ValueError", frame |-> NoFrame]
    ELSE IF (before.set \/ after.set) /\ f.ikind # "datetime"
    THEN [err |-> "TypeError", frame |-> NoFrame]
    ELSE [err |-> "None",
          frame |-> TakeRows(f, SortedSeq(
                      {i \in 1..NRows(f) :
                          /\ (before.set => f.index[i].n >= before.t)
                          /\ (after.set => f.index[i].n <= after.t)}))]

\* DataFrame.rename(columns=renames): renames is a function on column names
Rename(f, renames) ==
    LET new(c) == IF c \in DOMAIN renames THEN renames[c] ELSE c
        old(c) == CHOOSE i \in 1..Len(f.cols) : new(f.cols[i]) = c
        newcols == [i \in 1..Len(f.cols) |-> new(f.cols[i])]
    IN  [f EXCEPT !.cols = newcols,
                  !.rows = [i \in 1..NRows(f) |->
                               [c \in Range(newcols) |-> f.rows[i][f.cols[old(c)]]]]]

\* DataFrame.reset_index(): the index becomes the first column, named after the
\* index ('index', or 'level_0' when 'index' is taken, for an unnamed index),
\* and the frame gets a fresh range index.
ResetIndexName(f) ==
    IF f.iname # NoName THEN f.iname
    ELSE IF HasColumn(f, INDEX) THEN LEVEL_0 ELSE INDEX

ResetIndex(f) ==
    LET name == ResetIndexName(f)
    IN  IF HasColumn(f, name)
        THEN [err |-> "ValueError", frame |-> f]
        ELSE [err |-> "None",
              frame |-> [iname |-> NoName,
                         ikind |-> "range",
                         index |-> RangeIndex(NRows(f)),
                         cols |-> <<name>> \o f.cols,
                         rows |-> [i \in 1..NRows(f) |->
                                     [c \in Range(f.cols) \cup {name} |->
                                        IF c = name THEN f.index[i]
                                        ELSE f.rows[i][c]]]]]

\* data[name] = values
SetColumn(f, name, values) ==
    [f EXCEPT !.cols = IF HasColumn(f, name) THEN f.cols ELSE Append(f.cols, name),
              !.rows = [i \in 1..NRows(f) |->
                          [c \in Range(f.cols) \cup {name} |->
                             IF c = name THEN values[i] ELSE f.rows[i][c]]]]

\* matplotlib.dates.date2num of a timestamp: float days. The days are counted
\* from the start of day 0, as by the matplotlib that still ships
\* matplotlib.finance (barplot.py line 16), where date2num of a midnight is
\* the date's ordinal.
date2num(cell) == FloatCell(Rat(cell.n, MinutesPerDay))

\* datetime.toordinal(): the day number, the time of day dropped
toordinal(cell) == IntCell(cell.n \div MinutesPerDay)

----------------------------------------------------------------------------
(* barplot.prep_plot_data *)

\* The heap holds the caller's frame under "orig" and the frame the running
\* call works on under "data"; a reference is one of these two names.
InPlace(h, ref, frame) == [h EXCEPT ![ref] = frame]

\* What a call hands back: the error raised ("None" when it returned), the
\* heap it leaves, and the reference it returns
Raise(e, h) == [err |-> e, heap |-> h, ref |-> "orig"]

\* item[0].upper() + item[1:]
Capitalize(item) == <<UpperChar(item[1])>> \o Tail(item)

\* A buggy rename map that upper-cases every letter of the name.
PionRenamesAllCaps(f) ==
    [c \in {x \in Range(f.cols) : x # EVENT_DATE} |->
        [i \in 1..Len(c) |-> UpperChar(c[i])]]

\* renames of lines 45-46
PionRenames(f) ==
    [c \in {x \in Range(f.cols) : x # EVENT_DATE} |-> Capitalize(c)]

\* A buggy working copy: the truncation is stored back into the caller's frame
\* and the caller's frame is what the rest of the call works on.
WorkingAlias(h, ref, start_end_date) ==
    LET t == Truncate(h[ref], start_end_date[1], start_end_date[2])
    IN  IF t.err # "None" THEN Raise(t.err, h)
        ELSE [err |-> "None", heap |-> InPlace(h, ref, t.frame), ref |-> ref]

\* Lines 42-43: a deep copy, then truncate(), which returns a new frame
WorkingCopy(h, ref, start_end_date) ==
    LET t == Truncate(h[ref], start_end_date[1], start_end_date[2])
    IN  IF t.err # "None" THEN Raise(t.err, h)
        ELSE [err |-> "None", heap |-> InPlace(h, "data", t.frame), ref |-> "data"]

\* Lines 56-60: the numbers the date column is set to
DateNumbers(f, mode, dateField) ==
    IF mode = "pandas"
    THEN [i \in 1..NRows(f) |-> date2num(f.rows[i][dateField])]
    ELSE [i \in 1..NRows(f) |-> toordinal(f.rows[i][dateField])]

\* A buggy truncation call that passes only the start date.
TruncateBoundsStartOnly(start_end_date) == <<start_end_date[1], NoneBound>>

\* truncate(*start_end_date)
TruncateBounds(start_end_date) == start_end_date

\* dateField of lines 48 and 50
DateField(mode) == IF mode = "pion" THEN EVENT_DATE ELSE DATE

\* Lines 55-60, on the frame h2[data] whose index has been reset
PrepConvert(h2, data, mode) ==
    IF mode # "pandas" /\ mode # "pion" THEN Raise("AssertionError", h2)
    ELSE IF ~HasColumn(h2[data], DateField(mode)) THEN Raise("AttributeError", h2)
    ELSE [err |-> "None",
          heap |-> InPlace(h2, data,
                     SetColumn(h2[data], DATE,
                               DateNumbers(h2[data], mode, DateField(mode)))),
          ref |-> data]

\* Line 53, r being the outcome of reset_index on h1[data]
PrepResetIndex(h1, data, r, mode) ==
    IF r.err # "None" THEN Raise(r.err, h1)
    ELSE PrepConvert(InPlace(h1, data, r.frame), data, mode)

\* Lines 44-47, on the working copy w.heap[w.ref]
PrepRename(w, mode) ==
    IF mode = "pion"
    THEN InPlace(w.heap, w.ref, Rename(w.heap[w.ref], PionRenames(w.heap[w.ref])))
    ELSE w.heap

PrepRenamed(h1, data, mode) == PrepResetIndex(h1, data, ResetIndex(h1[data]), mode)

PrepCopied(w, mode) ==
    IF w.err # "None" THEN w ELSE PrepRenamed(PrepRename(w, mode), w.ref, mode)

\* prep_plot_data(orig_data, start_end_date, mode), orig_data being h[ref]
prep_plot_data(h, ref, start_end_date, mode) ==
    IF mode = "None"
    THEN Raise("NameError", h)      \* infer_data_mode is not defined (line 41)
    ELSE PrepCopied(WorkingCopy(h, ref, TruncateBounds(start_end_date)), mode)

----------------------------------------------------------------------------
(* Figures *)

\* made: a figure exists; series: the tuples handed to candlestick_ohlc;
\* width: the bar width; formatter, major_loc, minor_loc: the x axis settings
NoFigure ==
    [made |-> FALSE, series |-> <<>>, width |-> RInt(0),
     formatter |-> DateFormatter(""), major_loc |-> NoLocator,
     minor_loc |-> NoLocator]

\* [tuple(x) for x in data[['date','open','high','low','close']].to_records()]
OhlcTuples(f) ==
    [i \in 1..NRows(f) |->
        <<f.rows[i][DATE], f.rows[i][OPEN], f.rows[i][HIGH], f.rows[i][LOW],
          f.rows[i][CLOSE]>>]

HasOhlc(f) == {DATE, OPEN, HIGH, LOW, CLOSE} \subseteq Range(f.cols)

----------------------------------------------------------------------------
(* barplot.simple_pandas_plot *)

\* A buggy test that saves whenever output_file is not None.
ShouldSaveNotNone(output_file) == output_file # "None"

\* if output_file: (None and '' are false)
ShouldSave(output_file) == output_file # "None" /\ output_file # ""

\* pltargs=(('width', .3), ('colorup', 'b'))
DefaultWidth == Rat(3, 10)

\* Lines 92-132, p being what prep_plot_data handed back
SimpleDraw(p, data, files, output_file) ==
    IF p.err # "None"
    THEN [err |-> p.err, heap |-> p.heap, files |-> files, fig |-> NoFigure]
    ELSE IF ~HasOhlc(data)
    THEN [err |-> "KeyError", heap |-> p.heap, files |-> files, fig |-> NoFigure]
    ELSE [err |-> "None", heap |-> p.heap,
          files |-> IF ShouldSave(output_file)
                    THEN files \cup {output_file} ELSE files,
          fig |-> [NoFigure EXCEPT !.made = TRUE,
                                   !.series = OhlcTuples(data),
                                   !.width = DefaultWidth,
                                   !.formatter = DateFormatter("%b %y")]]

SimplePrepared(p, files, output_file) ==
    SimpleDraw(p, p.heap[p.ref], files, output_file)

\* simple_pandas_plot(orig_data, output_file, start_end_date=...): the error,
\* the heap and the file system it leaves, and the figure returned
simple_pandas_plot(h, ref, files, output_file, start_end_date) ==
    SimplePrepared(prep_plot_data(h, ref, start_end_date, "pandas"), files,
                   output_file)

----------------------------------------------------------------------------
(* DataFrame.resample(bsize).agg(...) of pandas *)

Digits == {"0", "1", "2", "3", "4", "5", "6", "7", "8", "9"}

DigitValue(c) ==
    CASE c = "0" -> 0 [] c = "1" -> 1 [] c = "2" -> 2 [] c = "3" -> 3
      [] c = "4" -> 4 [] c = "5" -> 5 [] c = "6" -> 6 [] c = "7" -> 7
      [] c = "8" -> 8 [] c = "9" -> 9

\* How many characters at the start of s are digits
LeadingDigits(s) ==
    CHOOSE k \in 0..Len(s) :
        /\ \A i \in 1..k : s[i] \in Digits
        /\ (k < Len(s) => s[k + 1] \notin Digits)

RECURSIVE Decimal(_)
Decimal(ds) ==
    IF ds = <<>> THEN 0
    ELSE 10 * Decimal(SubSeq(ds, 1, Len(ds) - 1)) + DigitValue(ds[Len(ds)])

\* The multiple in a frequency string: '5Min' -> 5, 'Min' -> 1
FreqCount(s) ==
    IF LeadingDigits(s) = 0 THEN 1 ELSE Decimal(SubSeq(s, 1, LeadingDigits(s)))

FreqUnit(s) == SubSeq(s, LeadingDigits(s) + 1, Len(s))

\* Minutes in one unit of the frequency; 0 when the unit is no frequency
UnitMinutes(unit) ==
    CASE Lower(unit) = <<"m", "i", "n">> -> 1
      [] Lower(unit) = <<"h">> -> 60
      [] OTHER -> 0

\* Whether the frequency parser takes the string: the spellings 'Min', 'min'
\* and 'h' are aliases in every pandas; another capitalisation of them is
\* taken by some versions and rejected by others.
FreqVerdicts(s) ==
    IF UnitMinutes(FreqUnit(s)) = 0 \/ FreqCount(s) = 0 THEN {FALSE}
    ELSE IF FreqUnit(s) \in { <<"M", "i", "n">>, <<"m", "i", "n">>, <<"h">> }
    THEN {TRUE}
    ELSE {TRUE, FALSE}

\* The bucket width in minutes
FreqMinutes(s) == FreqCount(s) * UnitMinutes(FreqUnit(s))

\* Cells as numbers: a < b
CellLess(a, b) == a.n * b.d < b.n * a.d

\* One aggregate of a non-empty sequence of cells
Aggregate(cells, how) ==
    CASE how = "first" -> cells[1]
      [] how = "last" -> cells[Len(cells)]
      [] how = "max" ->
            cells[CHOOSE i \in 1..Len(cells) :
                     /\ \A j \in 1..Len(cells) : ~CellLess(cells[i], cells[j])
                     /\ \A j \in 1..(i - 1) : CellLess(cells[j], cells[i])]
      [] how = "min" ->
            cells[CHOOSE i \in 1..Len(cells) :
                     /\ \A j \in 1..Len(cells) : ~CellLess(cells[j], cells[i])
                     /\ \A j \in 1..(i - 1) : CellLess(cells[i], cells[j])]

RECURSIVE SumCells(_)
SumCells(cells) ==
    IF cells = <<>> THEN 0 ELSE cells[1].n + SumCells(Tail(cells))

\* The aggregate of a bucket: NaN for an empty bucket, except that its sum is 0
AggregateBucket(cells, how) ==
    IF how = "sum" THEN IntCell(SumCells(cells))
    ELSE IF cells = <<>> THEN NaN
    ELSE Aggregate(cells, how)

\* A buggy aggregation that takes the open from the bucket's last bar.
AggSpecOpenLast ==
    (OPEN :> "last") @@ (HIGH :> "max") @@ (LOW :> "min") @@ (CLOSE :> "last")
    @@ (VOLUME :> "sum")

\* The dictionary of lines 70-71, and the order of its keys
AggSpec ==
    (OPEN :> "first") @@ (HIGH :> "max") @@ (LOW :> "min") @@ (CLOSE :> "last")
    @@ (VOLUME :> "sum")

AggColumns == <<OPEN, HIGH, LOW, CLOSE, VOLUME>>

BucketOf(t, minutes) == (t \div minutes) * minutes

\* The labels of the buckets from the first row's to the last row's
BucketLabels(f, minutes) ==
    IF NRows(f) = 0 THEN <<>>
    ELSE LET lo == BucketOf(f.index[1].n, minutes)
             hi == BucketOf(f.index[NRows(f)].n, minutes)
         IN  [j \in 1..((hi - lo) \div minutes + 1) |-> lo + (j - 1) * minutes]

\* The cells of column col in the rows that fall into the bucket labelled b
BucketCells(f, minutes, b, col) ==
    LET pos == SortedSeq({i \in 1..NRows(f) : BucketOf(f.index[i].n, minutes) = b})
    IN  [k \in 1..Len(pos) |-> f.rows[pos[k]][col]]

\* resample(minutes).agg(spec) of a frame with a sorted datetime index
Resample(f, minutes, spec) ==
    LET labels == BucketLabels(f, minutes)
    IN  [iname |-> f.iname,
         ikind |-> "datetime",
         index |-> [j \in 1..Len(labels) |-> TsCell(labels[j])],
         cols |-> AggColumns,
         rows |-> [j \in 1..Len(labels) |->
                     [c \in Range(AggColumns) |->
                        AggregateBucket(BucketCells(f, minutes, labels[j], c),
                                        spec[c])]]]

----------------------------------------------------------------------------
(* intraday.plot *)

\* The rule handed to resample() at line 69
ResampleToken(bsize) == bsize

FinanceImports == {"matplotlib.finance", "mpl_finance"}

\* The names lines 14-18 bind in each outcome of the import
BoundDrawers(fin) ==
    IF fin = "matplotlib.finance" THEN {"candlestick2_ohlc"}
    ELSE {"candlestick2_ohlc", "candlestick_ohlc"}

\* How plot ends when it raises e: st lists the steps that have run, made
\* tells whether plt.figure has made a figure
PlotRaise(e, h, st, made, b, rule) ==
    [err |-> e, heap |-> h, fig |-> NoFigure, steps |-> st, created |-> made,
     bparams |-> b, rule |-> rule]

\* A buggy order of lines 73 and 75: the figure is made before the bar-size
\* parameters are looked up.
PlotDrawFigureFirst(h2, data, b, fin, rule) ==
    IF b.err # "None"
    THEN PlotRaise(b.err, h2, <<"resample", "date2num", "figure">>, TRUE, NoParams,
                   rule)
    ELSE IF "candlestick_ohlc" \notin BoundDrawers(fin)
    THEN PlotRaise("NameError", h2,
                   <<"resample", "date2num", "BSizeParams", "figure">>, TRUE,
                   b.obj, rule)
    ELSE [err |-> "None", heap |-> h2,
          fig |-> [made |-> TRUE,
                   series |-> OhlcTuples(data),
                   width |-> b.obj.width,
                   formatter |-> b.obj.formatter,
                   major_loc |-> b.obj.major_loc,
                   minor_loc |-> b.obj.minor_loc],
          steps |-> <<"resample", "date2num", "BSizeParams", "figure",
                      "candlestick_ohlc", "axes">>,
          created |-> TRUE, bparams |-> b.obj, rule |-> rule]

\* Lines 75-102, b being the BSizeParams outcome and data the resampled frame
PlotDraw(h2, data, b, fin, rule) ==
    IF b.err # "None"
    THEN PlotRaise(b.err, h2, <<"resample", "date2num">>, FALSE, NoParams, rule)
    ELSE IF "candlestick_ohlc" \notin BoundDrawers(fin)
    THEN PlotRaise("NameError", h2,
                   <<"resample", "date2num", "BSizeParams", "figure">>, TRUE,
                   b.obj, rule)
    ELSE [err |-> "None", heap |-> h2,
          fig |-> [made |-> TRUE,
                   series |-> OhlcTuples(data),
                   width |-> b.obj.width,
                   formatter |-> b.obj.formatter,
                   major_loc |-> b.obj.major_loc,
                   minor_loc |-> b.obj.minor_loc],
          steps |-> <<"resample", "date2num", "BSizeParams", "figure",
                      "candlestick_ohlc", "axes">>,
          created |-> TRUE, bparams |-> b.obj, rule |-> rule]

\* Line 72: data['date'] = mdates.date2num(data.index.to_pydatetime())
PlotDates(data) ==
    SetColumn(data, DATE, [i \in 1..NRows(data) |-> date2num(data.index[i])])

PlotDated(h2, bsize, fin, rule) ==
    PlotDraw(h2, h2.data, BSizeParams(bsize), fin, rule)

PlotResampled(h, data, bsize, fin, rule) ==
    PlotDated(InPlace(h, "data", PlotDates(data)), bsize, fin, rule)

\* Lines 69-71: the errors of resample().agg(), or its result
PlotResample(h, orig_data, bsize, fin, accepted, rule) ==
    IF ~accepted THEN PlotRaise("ValueError", h, <<>>, FALSE, NoParams, rule)
    ELSE IF orig_data.ikind # "datetime"
    THEN PlotRaise("TypeError", h, <<>>, FALSE, NoParams, rule)
    ELSE IF ~(Range(AggColumns) \subseteq Range(orig_data.cols))
    THEN PlotRaise("KeyError", h, <<>>, FALSE, NoParams, rule)
    ELSE PlotResampled(h, Resample(orig_data, FreqMinutes(rule), AggSpec), bsize,
                       fin, rule)

\* plot(orig_data, bsize), orig_data being h[ref]; fin is the import that
\* succeeded at load time and accepted the frequency parser's verdict on the
\* rule. steps lists what has run when the call ends; created tells whether
\* plt.figure has made a figure; fig is the figure returned.
plot(h, ref, bsize, fin, accepted) ==
    PlotResample(h, h[ref], bsize, fin, accepted, ResampleToken(bsize))

----------------------------------------------------------------------------
(* The frames, dates and paths a caller may pass *)

BaseDay == 2
Span == 2
MaxRows == 3

\* Minutes on both sides of the midnight that starts day BaseDay
Times == (BaseDay * MinutesPerDay - Span)..(BaseDay * MinutesPerDay + Span - 1)

\* The bar recorded at minute t
Bar(t) ==
    (OPEN :> FloatCell(Rat(40 + ((t * 7) % 5), 2)))
    @@ (HIGH :> FloatCell(Rat(50 + (t % 3), 2)))
    @@ (LOW :> FloatCell(Rat(38 - ((t * 2) % 3), 2)))
    @@ (CLOSE :> FloatCell(Rat(40 + ((t * 3) % 5), 2)))
    @@ (VOLUME :> IntCell(100 * (1 + (t % 4))))

\* A frame of the bars at the given minutes (an increasing sequence), its dates
\* under the name dateField: as the index (layout "index") or as the first
\* column beside an unnamed range index (layout "column")
MakeFrame(times, dateField, layout) ==
    IF layout = "index"
    THEN [iname |-> dateField,
          ikind |-> "datetime",
          index |-> [i \in 1..Len(times) |-> TsCell(times[i])],
          cols |-> AggColumns,
          rows |-> [i \in 1..Len(times) |-> Bar(times[i])]]
    ELSE [iname |-> NoName,
          ikind |-> "range",
          index |-> RangeIndex(Len(times)),
          cols |-> <<dateField>> \o AggColumns,
          rows |-> [i \in 1..Len(times) |->
                      (dateField :> TsCell(times[i])) @@ Bar(times[i])]]

Frames ==
    { MakeFrame(SortedSeq(S), dateField, layout) :
        S \in {T \in SUBSET Times : Cardinality(T) <= MaxRows},
        dateField \in {DATE, EVENT_DATE},
        layout \in {"index", "column"} }

Bounds == {NoneBound} \cup {At(t) : t \in Times}

Modes == {"None", "pandas", "pion", "other"}

OutputFiles == {"None", "", "out.png"}

----------------------------------------------------------------------------
(* The caller *)

NoCall ==
    [op |-> "none", err |-> "None", mode |-> "None", start |-> NoneBound,
     end |-> NoneBound, bsize |-> <<>>, output_file |-> "None",
     ret |-> NoFrame, fig |-> NoFigure, steps |-> <<>>, created |-> FALSE,
     bparams |-> NoParams, rule |-> <<>>, accepted |-> FALSE, fs0 |-> {},
     removed |-> {}]

NoOperation ==
    [op |-> "none", token |-> <<>>, err |-> "None", before |-> NoParams,
     ret |-> NoParams]

Init ==
    /\ given \in Frames
    /\ heap = [orig |-> given, data |-> NoFrame]
    /\ fs = {}
    /\ finance \in FinanceImports
    /\ pc = "idle"
    /\ last = NoCall
    /\ bundle = NoParams
    /\ bres = NoOperation

\* The local names of a call are gone when it ends
Unbind(h) == [h EXCEPT !.data = NoFrame]

\* The call record of each operation, r being what the operation handed back
PrepRecord(r, start, end, mode) ==
    [NoCall EXCEPT !.op = "prep_plot_data", !.err = r.err, !.mode = mode,
                   !.start = start, !.end = end, !.fs0 = fs,
                   !.ret = IF r.err = "None" THEN r.heap[r.ref] ELSE NoFrame]

SimplePlotRecord(r, output_file, start, end) ==
    [NoCall EXCEPT !.op = "simple_pandas_plot", !.err = r.err, !.mode = "pandas",
                   !.start = start, !.end = end, !.output_file = output_file,
                   !.fig = r.fig, !.created = r.fig.made, !.fs0 = fs]

PlotRecord(r, bsize, accepted) ==
    [NoCall EXCEPT !.op = "plot", !.err = r.err, !.bsize = bsize, !.fig = r.fig,
                   !.steps = r.steps, !.created = r.created,
                   !.bparams = r.bparams, !.rule = r.rule,
                   !.accepted = accepted, !.fs0 = fs, !.ret = r.heap.data]

PrepEnds(r, start, end, mode) ==
    /\ heap' = Unbind(r.heap)
    /\ last' = PrepRecord(r, start, end, mode)

SimplePlotEnds(r, output_file, start, end) ==
    /\ heap' = Unbind(r.heap)
    /\ fs' = r.files
    /\ last' = SimplePlotRecord(r, output_file, start, end)

PlotEnds(r, bsize, accepted) ==
    /\ heap' = Unbind(r.heap)
    /\ last' = PlotRecord(r, bsize, accepted)

\* data = barplot.prep_plot_data(frame, (start, end), mode)
Prep(start, end, mode) ==
    /\ pc = "idle"
    /\ PrepEnds(prep_plot_data(heap, "orig", <<start, end>>, mode), start, end, mode)
    /\ pc' = "returned"
    /\ UNCHANGED <<given, fs, finance, bundle, bres>>

\* fig = barplot.simple_pandas_plot(frame, output_file, start_end_date=(start, end))
SimplePlot(output_file, start, end) ==
    /\ pc = "idle"
    /\ SimplePlotEnds(simple_pandas_plot(heap, "orig", fs, output_file,
                                         <<start, end>>),
                      output_file, start, end)
    /\ pc' = "returned"
    /\ UNCHANGED <<given, finance, bundle, bres>>

\* fig = intraday.plot(frame, bsize)
Plot(bsize) ==
    /\ pc = "idle"
    /\ \E accepted \in FreqVerdicts(ResampleToken(bsize)) :
         PlotEnds(plot(heap, "orig", bsize, finance, accepted), bsize, accepted)
    /\ pc' = "returned"
    /\ UNCHANGED <<given, fs, finance, bundle, bres>>

\* os.remove(path) by the caller, after a call
Remove(path) ==
    /\ pc = "returned"
    /\ path \in fs
    /\ fs' = fs \ {path}
    /\ last' = [last EXCEPT !.removed = @ \cup {path}]
    /\ UNCHANGED <<heap, given, finance, pc, bundle, bres>>

\* The caller drops what the call returned and is ready to call again
Return ==
    /\ pc = "returned"
    /\ pc' = "idle"
    /\ last' = NoCall
    /\ UNCHANGED <<heap, given, fs, finance, bundle, bres>>

Next ==
    \/ \E start \in Bounds, end \in Bounds, mode \in Modes : Prep(start, end, mode)
    \/ \E output_file \in OutputFiles, start \in Bounds, end \in Bounds :
           SimplePlot(output_file, start, end)
    \/ \E bsize \in Tokens : Plot(bsize)
    \/ \E path \in OutputFiles : Remove(path)
    \/ Return

Spec == Init /\ [][Next]_vars

----------------------------------------------------------------------------
(* A caller of BSizeParams alone *)

InitBSize ==
    /\ given = NoFrame
    /\ heap = [orig |-> NoFrame, data |-> NoFrame]
    /\ fs = {}
    /\ finance = "mpl_finance"
    /\ pc = "idle"
    /\ last = NoCall
    /\ bundle = NoParams
    /\ bres = NoOperation

\* bundle = BSizeParams(token); the name keeps its old object when this raises
Construct(token) ==
    /\ LET r == BSizeParams(token)
       IN  /\ bundle' = IF r.err = "None" THEN r.obj ELSE bundle
           /\ bres' = [op |-> "BSizeParams", token |-> token, err |-> r.err,
                       before |-> bundle, ret |-> r.obj]
    /\ UNCHANGED <<heap, given, fs, finance, pc, last>>

\* bundle.set_from_bsize(token) on an object constructed before
SetFromBsize(token) ==
    /\ bundle # NoParams
    /\ LET r == set_from_bsize(bundle, token)
       IN  /\ bundle' = r.self
           /\ bres' = [op |-> "set_from_bsize", token |-> token, err |-> r.err,
                       before |-> bundle, ret |-> NoParams]
    /\ UNCHANGED <<heap, given, fs, finance, pc, last>>

NextBSize ==
    \/ \E token \in Tokens : Construct(token)
    \/ \E token \in Tokens : SetFromBsize(token)

SpecBSize == InitBSize /\ [][NextBSize]_vars

----------------------------------------------------------------------------
(* Vocabulary of the properties *)

\* The lower-cased forms of the supported bar sizes, by their minutes
MinToken(minutes) ==
    CASE minutes = 1 -> <<"1", "m", "i", "n">>
      [] minutes = 5 -> <<"5", "m", "i", "n">>
      [] minutes = 15 -> <<"1", "5", "m", "i", "n">>

SupportedMinutes == {1, 5, 15}

Supported(token) == \E m \in SupportedMinutes : Lower(token) = MinToken(m)

\* Column names with the first letter in upper case
Capitalized ==
    (OPEN :> <<"O", "p", "e", "n">>) @@ (HIGH :> <<"H", "i", "g", "h">>)
    @@ (LOW :> <<"L", "o", "w">>) @@ (CLOSE :> <<"C", "l", "o", "s", "e">>)
    @@ (VOLUME :> <<"V", "o", "l", "u", "m", "e">>)

\* The date column a mode plots
ModeField(mode) == IF mode = "pion" THEN EVENT_DATE ELSE DATE

\* The frame carries its dates under the name field, as index or as column
HasDates(f, field) == f.iname = field \/ HasColumn(f, field)

\* The frame is indexed by its dates, under the name field
DateIndexed(f, field) == f.ikind = "datetime" /\ f.iname = field

\* The date of row i of a frame that carries its dates under field
DateOf(f, field, i) == IF f.iname = field THEN f.index[i].n ELSE f.rows[i][field].n

InRange(t, start, end) == (start.set => start.t <= t) /\ (end.set => t <= end.t)

Inverted(start, end) == start.set /\ end.set /\ start.t > end.t

\* The rows of the caller's frame whose date lies in [start, end]
Selected(field, start, end) ==
    {i \in 1..NRows(given) : InRange(DateOf(given, field, i), start, end)}

\* The j-th smallest member of a set of row numbers
Nth(K, j) == CHOOSE i \in K : Cardinality({k \in K : k < i}) = j - 1

\* out holds exactly the rows K of the caller's frame, in their order; names
\* tells under which name out carries each price and volume column
SameRows(out, K, names) ==
    /\ NRows(out) = Cardinality(K)
    /\ \A j \in 1..NRows(out) : \A c \in Range(AggColumns) :
           /\ HasColumn(out, names[c])
           /\ out.rows[j][names[c]] = given.rows[Nth(K, j)][c]

Unrenamed == [c \in Range(AggColumns) |-> c]

OutNames(mode) == IF mode = "pion" THEN Capitalized ELSE Unrenamed

\* The number a mode turns the date t into: the day ordinal in mode 'pion',
\* float days in mode 'pandas'
IsDateNumber(cell, t, mode) ==
    IF mode = "pion"
    THEN cell.k = "int" /\ cell.n = t \div MinutesPerDay
    ELSE cell.k = "float" /\ cell.n * MinutesPerDay = t * cell.d

SameDates(out, K, field, mode) ==
    /\ HasColumn(out, DATE)
    /\ \A j \in 1..NRows(out) :
           IsDateNumber(out.rows[j][DATE], DateOf(given, field, Nth(K, j)), mode)

PrepCalled == pc = "returned" /\ last.op = "prep_plot_data"
SimplePlotCalled == pc = "returned" /\ last.op = "simple_pandas_plot"
PlotCalled == pc = "returned" /\ last.op = "plot"

----------------------------------------------------------------------------
(* Properties of BSizeParams, under SpecBSize *)

\* C1: constructing BSizeParams with a token whose lower-cased form is 1min,
\* 5min or 15min succeeds with width = minutes*3/5200, and no successfully
\* constructed object keeps the default width 1.0.
C1_WidthOfSupportedToken ==
    bres.op = "BSizeParams" =>
        /\ \A m \in SupportedMinutes :
               Lower(bres.token) = MinToken(m) =>
                   /\ bres.err = "None"
                   /\ bundle = bres.ret
                   /\ bres.ret.bsize = bres.token
                   /\ bres.ret.width.num * 5200 = m * 3 * bres.ret.width.den
        /\ (bres.err = "None" => bres.ret.width # RInt(1))

C1_Witness ==
    /\ bres.op = "BSizeParams"
    /\ bres.token = <<"1", "5", "M", "I", "N">>
    /\ bres.err = "None"
    /\ bundle.width = Rat(9, 1040)

\* C2: with a token whose lower-cased form is not 1min, 5min or 15min, the
\* constructor fails and returns no object, and set_from_bsize fails and
\* leaves width, major_loc, minor_loc and formatter of the object as they were.
C2_UnsupportedTokenFails ==
    (bres.op # "none" /\ ~Supported(bres.token)) =>
        /\ bres.err # "None"
        /\ bres.ret = NoParams
        /\ bundle.width = bres.before.width
        /\ bundle.major_loc = bres.before.major_loc
        /\ bundle.minor_loc = bres.before.minor_loc
        /\ bundle.formatter = bres.before.formatter

C2_Witness ==
    /\ bres.op = "set_from_bsize"
    /\ bres.token = <<"2", "M", "i", "n">>
    /\ bres.err = "AttributeError"
    /\ bres.before.width = Rat(9, 1040)
    /\ bundle = bres.before

----------------------------------------------------------------------------
(* Properties of the data preparer, under Spec *)

\* C3 as stated: for a frame ordered by the dates its mode plots and every
\* pair (start, end), each possibly absent, prep_plot_data returns exactly
\* the rows with start <= date <= end, in their order.
C3_EveryPairSelectsRows ==
    (/\ PrepCalled
     /\ last.mode \in {"pandas", "pion"}
     /\ DateIndexed(given, ModeField(last.mode)))
    => /\ last.err = "None"
       /\ SameRows(last.ret, Selected(ModeField(last.mode), last.start, last.end),
                   OutNames(last.mode))

\* C3 amended: the same for every pair that is not inverted; a pair with
\* start > end makes the call fail with ValueError.
C3_OrderedPairSelectsRows ==
    (/\ PrepCalled
     /\ last.mode \in {"pandas", "pion"}
     /\ DateIndexed(given, ModeField(last.mode)))
    => IF Inverted(last.start, last.end)
       THEN last.err = "ValueError" /\ last.ret = NoFrame
       ELSE /\ last.err = "None"
            /\ SameRows(last.ret,
                        Selected(ModeField(last.mode), last.start, last.end),
                        OutNames(last.mode))
            /\ SameDates(last.ret,
                         Selected(ModeField(last.mode), last.start, last.end),
                         ModeField(last.mode), last.mode)

C3_Witness ==
    /\ PrepCalled
    /\ last.mode = "pion"
    /\ DateIndexed(given, EVENT_DATE)
    /\ last.start.set /\ last.end.set /\ last.start.t < last.end.t
    /\ last.err = "None"
    /\ NRows(given) = 3
    /\ NRows(last.ret) = 1
    /\ last.ret.rows[1][Capitalized[OPEN]] = given.rows[2][OPEN]

\* C4: called without a mode, prep_plot_data detects the mode from the marker
\* column: a frame with the marker of exactly one mode is prepared in that
\* mode, and any failure of the detection is a schema error.
C4_ModeIsDetected ==
    (PrepCalled /\ last.mode = "None") =>
        /\ last.err \in {"None", "SchemaError", "ValueError", "TypeError"}
        /\ \A mode \in {"pandas", "pion"} :
               (/\ DateIndexed(given, ModeField(mode))
                /\ ~Inverted(last.start, last.end))
               => /\ last.err = "None"
                  /\ SameDates(last.ret,
                               Selected(ModeField(mode), last.start, last.end),
                               ModeField(mode), mode)

\* C5: in mode 'pion' every column but event_date is renamed to its name with
\* the first letter in upper case, and date holds the day ordinal of the
\* row's event_date; in mode 'pandas' no column is renamed and date holds the
\* date as float days.
C5_RenamedAndDated ==
    (PrepCalled /\ last.mode \in {"pandas", "pion"}
       /\ HasDates(given, ModeField(last.mode)))
    => /\ (~last.start.set /\ ~last.end.set) => last.err = "None"
       /\ last.err = "None" =>
            LET K == Selected(ModeField(last.mode), last.start, last.end)
            IN  /\ SameRows(last.ret, K, OutNames(last.mode))
                /\ SameDates(last.ret, K, ModeField(last.mode), last.mode)
                /\ \A c \in Range(AggColumns) :
                       IF last.mode = "pion"
                       THEN ~HasColumn(last.ret, c)
                       ELSE ~HasColumn(last.ret, Capitalized[c])
                /\ last.mode = "pion" =>
                       /\ HasColumn(last.ret, EVENT_DATE)
                       /\ \A j \in 1..NRows(last.ret) :
                              /\ last.ret.rows[j][EVENT_DATE].k = "ts"
                              /\ last.ret.rows[j][DATE] =
                                   IntCell(last.ret.rows[j][EVENT_DATE].n
                                             \div MinutesPerDay)

C5_Witness ==
    /\ PrepCalled
    /\ last.mode = "pion"
    /\ HasColumn(given, EVENT_DATE)
    /\ last.err = "None"
    /\ NRows(last.ret) = 2
    /\ last.ret.rows[1][DATE] = IntCell(BaseDay - 1)
    /\ last.ret.rows[2][DATE] = IntCell(BaseDay)
    /\ last.ret.rows[2][Capitalized[VOLUME]] = given.rows[2][VOLUME]

\* C10: whatever calls have been made, and however they ended, the caller's
\* frame is as the caller built it: rows, column names, index, no date column
\* added.
C10_InputUnchanged == heap.orig = given /\ heap.data = NoFrame

C10_Witness ==
    /\ PrepCalled
    /\ last.mode = "pion"
    /\ last.err = "None"
    /\ last.start.set
    /\ NRows(last.ret) < NRows(given)
    /\ HasColumn(last.ret, DATE)
    /\ ~HasColumn(heap.orig, DATE)
    /\ heap.orig = given

----------------------------------------------------------------------------
(* Properties of the render calls, under Spec *)

\* The minutes of a supported bar size
MinutesOf(token) == CHOOSE m \in SupportedMinutes : Lower(token) = MinToken(m)

\* The rows of the caller's frame in the bucket of width m that holds minute b
InBucket(b, m) ==
    {i \in 1..NRows(given) : given.index[i].n \div m = b \div m}

First(K) == CHOOSE i \in K : \A k \in K : i <= k
Final(K) == CHOOSE i \in K : \A k \in K : k <= i

\* The cell is the largest (smallest) of column c over the rows K
IsMaxOf(cell, K, c) ==
    /\ \E i \in K : given.rows[i][c] = cell
    /\ \A i \in K : ~CellLess(cell, given.rows[i][c])

IsMinOf(cell, K, c) ==
    /\ \E i \in K : given.rows[i][c] = cell
    /\ \A i \in K : ~CellLess(given.rows[i][c], cell)

RECURSIVE VolumeOf(_)
VolumeOf(K) ==
    IF K = {} THEN 0
    ELSE given.rows[First(K)][VOLUME].n + VolumeOf(K \ {First(K)})

\* row is the aggregate of the rows K, which start the bucket at minute b;
\* tuple is what was drawn for it
IsBarOf(row, tuple, K, b) ==
    /\ tuple = <<row[DATE], row[OPEN], row[HIGH], row[LOW], row[CLOSE]>>
    /\ row[DATE].k = "float" /\ row[DATE].n * MinutesPerDay = b * row[DATE].d
    /\ row[VOLUME] = IntCell(VolumeOf(K))
    /\ IF K = {}
       THEN row[OPEN] = NaN /\ row[HIGH] = NaN /\ row[LOW] = NaN /\ row[CLOSE] = NaN
       ELSE /\ row[OPEN] = given.rows[First(K)][OPEN]
            /\ IsMaxOf(row[HIGH], K, HIGH)
            /\ IsMinOf(row[LOW], K, LOW)
            /\ row[CLOSE] = given.rows[Final(K)][CLOSE]

\* C6: the series plot draws has exactly one row for each bucket of the bar
\* size from the first bar's to the last bar's, with open = first open,
\* high = highest high, low = lowest low, close = last close and volume =
\* summed volume of the bucket's bars (a bucket without bars has no prices and
\* volume 0); the rule given to the resampler is the bsize token that selects
\* the bar-size parameters.
C6_OneBarPerBucket ==
    (PlotCalled /\ last.err = "None") =>
        LET m == MinutesOf(last.bsize)
            n == NRows(given)
            lo == (given.index[1].n \div m) * m
            hi == (given.index[n].n \div m) * m
        IN  /\ last.rule = last.bsize
            /\ last.bparams.bsize = last.bsize
            /\ last.fig.width = last.bparams.width
            /\ Len(last.fig.series) = NRows(last.ret)
            /\ NRows(last.ret) = IF n = 0 THEN 0 ELSE (hi - lo) \div m + 1
            /\ \A j \in 1..NRows(last.ret) :
                   IsBarOf(last.ret.rows[j], last.fig.series[j],
                           InBucket(lo + (j - 1) * m, m), lo + (j - 1) * m)

C6_Witness ==
    /\ PlotCalled
    /\ last.err = "None"
    /\ Lower(last.bsize) = MinToken(5)
    /\ NRows(given) = 3
    /\ NRows(last.ret) = 2
    /\ Cardinality(InBucket(given.index[1].n, 5)) = 2
    /\ last.ret.rows[1][OPEN] = given.rows[1][OPEN]
    /\ last.ret.rows[1][OPEN] # given.rows[2][OPEN]
    /\ last.ret.rows[1][CLOSE] = given.rows[2][CLOSE]
    /\ last.ret.rows[1][CLOSE] # given.rows[1][CLOSE]

\* C7: for a daily frame indexed by date and a start/end pair that is not
\* inverted, simple_pandas_plot returns the figure; a given output_file exists
\* when the call returns, no file is written when output_file is None or
\* empty, and a path the caller removes afterwards is absent.
C7_FigureAndFile ==
    (/\ SimplePlotCalled
     /\ DateIndexed(given, DATE)
     /\ ~Inverted(last.start, last.end))
    => /\ last.err = "None"
       /\ last.fig.made
       /\ Len(last.fig.series) = Cardinality(Selected(DATE, last.start, last.end))
       /\ fs = (IF last.output_file \in {"None", ""} THEN last.fs0
                ELSE last.fs0 \cup {last.output_file}) \ last.removed

C7_Witness ==
    /\ SimplePlotCalled
    /\ DateIndexed(given, DATE)
    /\ last.start.set /\ last.end.set
    /\ last.err = "None"
    /\ Len(last.fig.series) = 2
    /\ last.output_file = "out.png"
    /\ last.fs0 = {}
    /\ last.removed = {"out.png"}
    /\ fs = {}

\* C8: for a frame with a datetime index and a supported bsize, plot returns
\* a figure, whichever import of the drawing functions succeeded at load time.
C8_PlotReturnsFigure ==
    (/\ PlotCalled
     /\ given.ikind = "datetime"
     /\ Supported(last.bsize)
     /\ last.accepted)
    => last.err = "None" /\ last.fig.made

\* C9 as stated: an unsupported bsize makes plot raise the unsupported bar
\* size error before the data is resampled and before a figure is made.
C9_RaisedBeforeAnyStep ==
    (PlotCalled /\ ~Supported(last.bsize)) =>
        /\ last.err = "AttributeError"
        /\ last.steps = <<>>
        /\ ~last.created

\* C9 amended: an unsupported bsize makes plot raise before a figure is made
\* and with no file written; the resampling comes first, so the error is the
\* resampler's own (and nothing has run) when the resampler rejects the rule
\* or the frame, and otherwise the unsupported bar size error, raised after
\* the data has been resampled and its dates converted.
C9_RaisedBeforeFigure ==
    (PlotCalled /\ ~Supported(last.bsize)) =>
        /\ last.err # "None"
        /\ ~last.created
        /\ last.fig = NoFigure
        /\ fs = last.fs0 \ last.removed
        /\ IF last.accepted /\ given.ikind = "datetime"
           THEN /\ last.err = "AttributeError"
                /\ last.steps = <<"resample", "date2num">>
           ELSE /\ last.err \in {"ValueError", "TypeError"}
                /\ last.steps = <<>>

C9_Witness ==
    /\ PlotCalled
    /\ last.bsize = <<"2", "M", "i", "n">>
    /\ last.err = "AttributeError"
    /\ last.steps = <<"resample", "date2num">>
    /\ NRows(last.ret) = 2
    /\ ~last.created

====
